---- MODULE Spec2Model ----
(***************************************************************************)
(* The standby-roster scheduler of generator.py (class ShiftScheduler):    *)
(* the initial assignment of generate_schedule, the statistics recompute   *)
(* update_assignments and the swap loop of equalize_shifts.                *)
(*                                                                         *)
(* A date is its offset in days from start_date, so the days of the range  *)
(* are 0 .. numDays-1 with numDays = (end_date - start_date).days + 1;     *)
(* numDays is 0 or negative when end_date is earlier than start_date.      *)
(* A person is the position (1-based) of their name in the roster; names   *)
(* are unique.  None is the Python None of last_assigned.                  *)
(*                                                                         *)
(* The greedy variant of Standby.py (its own class ShiftScheduler, without *)
(* weekly cap, adjacency test or rebalancer) is modelled on the same       *)
(* variables by the Standby... definitions and the specification           *)
(* SpecStandby.                                                            *)
(***************************************************************************)
EXTENDS Integers, Sequences, FiniteSets, TLC

\* Bounds of the model.
MaxRoster == 5
MaxDays == 5
MaxDaysWide == 3
MaxHolidays == 1
MaxIterations == 2
MaxDaysBack == 1
MaxDaysLong == 8
MaxRosterStandby == 4
MaxDaysStandby == 3

None == -1

VARIABLES
    names,            \* self.names: the roster, in order
    numDays,          \* (self.end_date - self.start_date).days + 1
    startWeekday,     \* self.start_date.weekday(), 0 = Monday
    holidays,         \* self.holidays, as day offsets
    max_iterations,   \* the parameter of equalize_shifts
    schedule,         \* self.schedule: day -> list of names
    assignments,      \* self.assignments: name -> statistics record
    pc,               \* position in generate_schedule / equalize_shifts
    error,            \* the exception that ended the run, or "none"
    current_date,     \* generate_schedule: the day being filled
    available_names,  \* generate_schedule: local list
    shift,            \* generate_schedule: local list
    iterations,       \* equalize_shifts: pass counter
    date,             \* equalize_shifts: the day being scanned
    i,                \* equalize_shifts: position in current_assignees (1-based)
    relaxed,          \* the warning of line 83 has been logged
    swaps,            \* the number of replacements equalize_shifts has made
    entry_spread,     \* max(total) - min(total) when equalize_shifts was entered
    dates             \* Standby.py generate_schedule: the days left to fill, in
                      \* their shuffled order

vars == <<names, numDays, startWeekday, holidays, max_iterations, schedule,
          assignments, pc, error, current_date, available_names, shift,
          iterations, date, i, relaxed, swaps, entry_spread, dates>>

inputs == <<names, numDays, startWeekday, holidays>>

----------------------------------------------------------------------------
\* Sequences, dicts and random choices.

Range(s) == {s[k] : k \in 1..Len(s)}

Reverse(s) == [k \in 1..Len(s) |-> s[Len(s) + 1 - k]]

RECURSIVE Perms(_)
Perms(S) == IF S = {} THEN {<<>>}
            ELSE UNION {{<<x>> \o p : p \in Perms(S \ {x})} : x \in S}

\* random.shuffle(l): every order of l is a possible outcome.
Shuffles(l) == Perms(Range(l))

\* Two of the outcomes of random.shuffle(l): l as it is, and l reversed.
ShuffleSample(l) == {l, Reverse(l)}

EmptyDict == [k \in {} |-> 0]

\* d.get(k, default)
DictGet(d, k, default) == IF k \in DOMAIN d THEN d[k] ELSE default

\* d[k] = v
DictSet(d, k, v) == [x \in (DOMAIN d) \cup {k} |-> IF x = k THEN v ELSE d[x]]

\* list.remove(x): drops the first occurrence of x.
RECURSIVE ListRemove(_, _)
ListRemove(l, x) == IF l = <<>> THEN <<>>
                    ELSE IF Head(l) = x THEN Tail(l)
                    ELSE <<Head(l)>> \o ListRemove(Tail(l), x)

RECURSIVE SetMax(_)
SetMax(S) == LET x == CHOOSE y \in S : TRUE
             IN IF S = {x} THEN x
                ELSE LET m == SetMax(S \ {x}) IN IF x > m THEN x ELSE m

RECURSIVE SetMin(_)
SetMin(S) == LET x == CHOOSE y \in S : TRUE
             IN IF S = {x} THEN x
                ELSE LET m == SetMin(S \ {x}) IN IF x < m THEN x ELSE m

----------------------------------------------------------------------------
\* The scheduler's predicates.

NameSet == Range(names)

\* The record __init__ gives every name.
NewRecord == [total |-> 0, special_days |-> 0, dates |-> <<>>,
              last_assigned |-> None, weeks |-> EmptyDict]

weekday(d) == (startWeekday + d) % 7

is_special_day(d) == weekday(d) >= 5 \/ d \in holidays

\* self.special_days, the list calculate_special_days builds.
special_days == SelectSeq([k \in 1..(IF numDays > 0 THEN numDays ELSE 0) |-> k - 1],
                          is_special_day)

total_shifts == numDays * 2

\* Line 78: the number of dates generate_schedule loops over; range(n) is
\* empty for n <= 0.
NumDates == IF numDays > 0 THEN numDays ELSE 0

get_week_number(d) == d \div 7

\* is_available without the weekly cap.
is_availableNoCap(name, d) == TRUE

is_available(name, d) ==
    DictGet(assignments[name].weeks, get_week_number(d), 0) < 2

\* Line 73 without its first half: only the day after is looked at.
is_consecutiveNextOnly(name, d) ==
    d + 1 \in DOMAIN schedule /\ name \in Range(schedule[d + 1])

is_consecutive(name, d) ==
    \/ (d - 1 \in DOMAIN schedule /\ name \in Range(schedule[d - 1]))
    \/ (d + 1 \in DOMAIN schedule /\ name \in Range(schedule[d + 1]))

----------------------------------------------------------------------------
\* update_assignments.

\* The (date, name) pairs in the order the two loops of update_assignments
\* visit them: schedule.items() is in insertion order, which is by date.
RECURSIVE ScheduleItems(_, _)
ScheduleItems(sched, d) ==
    IF d \notin DOMAIN sched THEN <<>>
    ELSE [k \in 1..Len(sched[d]) |-> <<d, sched[d][k]>>] \o ScheduleItems(sched, d + 1)

\* Line 166 left out: total is not reset.
ResetRecordKeepsTotal(r) == [total |-> r.total, special_days |-> 0, dates |-> <<>>,
                             last_assigned |-> None, weeks |-> EmptyDict]

\* The first loop: every field of a record is reset.
ResetRecord(r) == [total |-> 0, special_days |-> 0, dates |-> <<>>,
                   last_assigned |-> None, weeks |-> EmptyDict]

\* The body of the second loop for one (date, name) pair.
CountAssignee(r, d) ==
    [total |-> r.total + 1,
     dates |-> Append(r.dates, d),
     special_days |-> IF is_special_day(d) THEN r.special_days + 1 ELSE r.special_days,
     last_assigned |-> IF r.last_assigned = None \/ d > r.last_assigned
                       THEN d ELSE r.last_assigned,
     weeks |-> DictSet(r.weeks, get_week_number(d),
                       DictGet(r.weeks, get_week_number(d), 0) + 1)]

RECURSIVE CountItems(_, _, _)
CountItems(stats, items, k) ==
    IF k > Len(items) THEN stats
    ELSE LET d == items[k][1]
             n == items[k][2]
         IN CountItems([stats EXCEPT ![n] = CountAssignee(stats[n], d)], items, k + 1)

\* The statistics update_assignments leaves, from the ones it finds.
update_assignments(stats, sched) ==
    CountItems([n \in DOMAIN stats |-> ResetRecord(stats[n])],
               ScheduleItems(sched, 0), 1)

----------------------------------------------------------------------------
\* generate_schedule: the initial assignment.

\* Line 81: the names that are neither adjacent nor at the weekly cap.
StrictNames(d) ==
    SelectSeq(names, LAMBDA n : ~is_consecutive(n, d) /\ is_available(n, d))

\* Line 84 dropping the adjacency test together with the weekly cap.
RelaxedNamesAll(d) == names

\* Line 84: the weekly cap dropped.
RelaxedNames(d) == SelectSeq(names, LAMBDA n : ~is_consecutive(n, d))

\* Lines 81-84: the list that is shuffled for day d.
EligibleNames(d) ==
    IF Len(StrictNames(d)) < 2 THEN RelaxedNames(d) ELSE StrictNames(d)

\* Line 92: the fallback list.
RefillNames(sh) == SelectSeq(names, LAMBDA n : n \notin Range(sh))

\* Lines 81-88 with the shuffle's outcome p.
StartDayTo(p) ==
    /\ pc = "for_date"
    /\ current_date < numDays
    /\ available_names' = p
    /\ shift' = <<>>
    /\ pc' = "pick"
    /\ relaxed' = (relaxed \/ Len(StrictNames(current_date)) < 2)
    /\ UNCHANGED <<inputs, max_iterations, schedule, assignments, error,
                   current_date, iterations, date, i, swaps, entry_spread,
                   dates>>

StartDay == \E p \in Shuffles(EligibleNames(current_date)) : StartDayTo(p)

\* Line 95 reading available_names[0] without popping it.
PopRestKeepsHead(pool) == pool

\* Line 95: what pop(0) leaves of the list.
PopRest(pool) == Tail(pool)

\* Lines 95-100 on the list pool: one name is popped and counted in its week;
\* the second pick of a day stores the shift (the locals are dead after it).
PickFrom(pool) ==
    LET name == Head(pool)
        wk == get_week_number(current_date)
        sh == Append(shift, name)
        rec == assignments[name]
    IN /\ pool # <<>>
       /\ assignments' = [assignments EXCEPT
              ![name] = [rec EXCEPT !.weeks = DictSet(rec.weeks, wk,
                                                DictGet(rec.weeks, wk, 0) + 1)]]
       /\ IF Len(sh) < 2
          THEN /\ available_names' = PopRest(pool)
               /\ shift' = sh
               /\ UNCHANGED <<schedule, current_date, pc>>
          ELSE /\ schedule' = (current_date :> sh) @@ schedule
               /\ current_date' = current_date + 1
               /\ available_names' = <<>>
               /\ shift' = <<>>
               /\ pc' = "for_date"
       /\ UNCHANGED <<inputs, max_iterations, error, iterations, date, i,
                      relaxed, swaps, entry_spread, dates>>

\* StartDay and PickName with the shuffles of ShuffleSample only: every run of
\* these is a run of the program.
StartDaySample == \E p \in ShuffleSample(EligibleNames(current_date)) : StartDayTo(p)

PickNameSample ==
    /\ pc = "pick"
    /\ IF available_names # <<>>
       THEN PickFrom(available_names)
       ELSE \E p \in ShuffleSample(RefillNames(shift)) : PickFrom(p)

\* Lines 90-93: the pool a pick pops from, given the refill's shuffle.
PickName ==
    /\ pc = "pick"
    /\ IF available_names # <<>>
       THEN PickFrom(available_names)
       ELSE \E p \in Shuffles(RefillNames(shift)) : PickFrom(p)

\* Line 95 on an empty list: pop(0) raises IndexError.
PickFails ==
    /\ pc = "pick"
    /\ available_names = <<>>
    /\ RefillNames(shift) = <<>>
    /\ pc' = "error"
    /\ error' = "IndexError"
    /\ UNCHANGED <<inputs, max_iterations, schedule, assignments, current_date,
                   available_names, shift, iterations, date, i, relaxed, swaps,
                   entry_spread, dates>>

\* Line 103: the loop over the dates is over; the statistics are recomputed.
InitialDone ==
    /\ pc = "for_date"
    /\ current_date >= numDays
    /\ assignments' = update_assignments(assignments, schedule)
    /\ pc' = "equalize"
    /\ UNCHANGED <<inputs, max_iterations, schedule, error, current_date,
                   available_names, shift, iterations, date, i, relaxed, swaps,
                   entry_spread, dates>>

----------------------------------------------------------------------------
\* equalize_shifts: the rebalancer.

\* enumerate(self.names): the 0-based index of a name.
IndexOf(name) == (CHOOSE k \in 1..Len(names) : names[k] = name) - 1

base_shifts == total_shifts \div Len(names)

extra_shifts == total_shifts % Len(names)

\* Line 112 with i <= extra_shifts: one person too many gets the extra shift.
target_shiftsOneMore(name) ==
    base_shifts + (IF IndexOf(name) <= extra_shifts THEN 1 ELSE 0)

\* Line 112.
target_shifts(name) == base_shifts + (IF IndexOf(name) < extra_shifts THEN 1 ELSE 0)

\* Line 113.
target_special_days == (Len(special_days) * 2) \div Len(names)

Totals == {assignments[n].total : n \in DOMAIN assignments}

Specials == {assignments[n].special_days : n \in DOMAIN assignments}

\* Line 125 testing the special days only.
StopConditionSpecialOnly == SetMax(Specials) - SetMin(Specials) <= 1

\* Line 125 testing the totals against the targets instead of the spreads.
StopConditionAtTargets ==
    \A n \in DOMAIN assignments : assignments[n].total = target_shifts(n)

\* Lines 120-125: the condition of the break.
StopCondition ==
    /\ SetMax(Totals) - SetMin(Totals) <= 1
    /\ SetMax(Specials) - SetMin(Specials) <= 1

\* Lines 133-134: the assignee is over a target.
OverTarget(name, d) ==
    \/ assignments[name].total > target_shifts(name)
    \/ (is_special_day(d) /\ assignments[name].special_days > target_special_days)

\* Lines 140-141: the candidate is under a target.
UnderTarget(n, d) ==
    \/ assignments[n].total < target_shifts(n)
    \/ (is_special_day(d) /\ assignments[n].special_days < target_special_days)

\* Line 137 without its test: anybody may replace, also the day's other assignee.
NotOnDayDropped(n, d) == TRUE

\* Line 137: n is not one of the day's current assignees.
NotOnDay(n, d) == n \notin Range(schedule[d])

\* Line 138 left out: a replacement may be on the day before or after.
CandidatesAdjacent(d) ==
    SelectSeq(names, LAMBDA n : /\ NotOnDay(n, d)
                                /\ is_available(n, d)
                                /\ UnderTarget(n, d))

\* Line 139 left out: a replacement may be at the weekly cap.
CandidatesNoCap(d) ==
    SelectSeq(names, LAMBDA n : /\ NotOnDay(n, d)
                                /\ ~is_consecutive(n, d)
                                /\ UnderTarget(n, d))

\* Lines 136-141.
Candidates(d) ==
    SelectSeq(names, LAMBDA n : /\ NotOnDay(n, d)
                                /\ ~is_consecutive(n, d)
                                /\ is_available(n, d)
                                /\ UnderTarget(n, d))

\* Line 147 left out: the outgoing person keeps the date.
SwapOutKeepsDate(r, d) ==
    [r EXCEPT !.total = r.total - 1,
              !.special_days = IF is_special_day(d) THEN r.special_days - 1
                               ELSE r.special_days,
              !.weeks = DictSet(r.weeks, get_week_number(d),
                                r.weeks[get_week_number(d)] - 1)]

\* Line 156 left out: the outgoing person's week count is not lowered.
SwapOutKeepsWeek(r, d) ==
    [r EXCEPT !.total = r.total - 1,
              !.dates = ListRemove(r.dates, d),
              !.special_days = IF is_special_day(d) THEN r.special_days - 1
                               ELSE r.special_days]

\* Lines 146-147, 151, 156: the outgoing person's record.
SwapOut(r, d) ==
    [r EXCEPT !.total = r.total - 1,
              !.dates = ListRemove(r.dates, d),
              !.special_days = IF is_special_day(d) THEN r.special_days - 1
                               ELSE r.special_days,
              !.weeks = DictSet(r.weeks, get_week_number(d),
                                r.weeks[get_week_number(d)] - 1)]

\* Line 148 left out: the incoming person's total is not raised.
SwapInNoTotal(r, d) ==
    [r EXCEPT !.dates = Append(r.dates, d),
              !.special_days = IF is_special_day(d) THEN r.special_days + 1
                               ELSE r.special_days,
              !.weeks = DictSet(r.weeks, get_week_number(d),
                                DictGet(r.weeks, get_week_number(d), 0) + 1)]

\* Lines 148-149, 152, 157: the incoming person's record.
SwapIn(r, d) ==
    [r EXCEPT !.total = r.total + 1,
              !.dates = Append(r.dates, d),
              !.special_days = IF is_special_day(d) THEN r.special_days + 1
                               ELSE r.special_days,
              !.weeks = DictSet(r.weeks, get_week_number(d),
                                DictGet(r.weeks, get_week_number(d), 0) + 1)]

\* Lines 107-118: equalize_shifts is entered with its iteration cap and the
\* targets are computed; an empty roster divides by zero.
EqualizeEnter ==
    /\ pc = "equalize"
    /\ Len(names) > 0
    /\ max_iterations' \in 1..MaxIterations
    /\ iterations' = 0
    /\ entry_spread' = SetMax(Totals) - SetMin(Totals)
    /\ pc' = "while"
    /\ UNCHANGED <<inputs, schedule, assignments, error, current_date,
                   available_names, shift, date, i, relaxed, swaps, dates>>

EqualizeFails ==
    /\ pc = "equalize"
    /\ Len(names) = 0
    /\ pc' = "error"
    /\ error' = "ZeroDivisionError"
    /\ UNCHANGED <<inputs, max_iterations, schedule, assignments, current_date,
                   available_names, shift, iterations, date, i, relaxed, swaps,
                   entry_spread, dates>>

\* Lines 119-128: the loop test, the stop condition and the start of a pass.
WhileCheck ==
    /\ pc = "while"
    /\ IF iterations < max_iterations /\ ~StopCondition
       THEN IF DOMAIN schedule = {}
            THEN /\ iterations' = iterations + 1
                 /\ UNCHANGED <<pc, date, i>>
            ELSE /\ date' = SetMin(DOMAIN schedule)
                 /\ i' = 1
                 /\ pc' = "scan"
                 /\ UNCHANGED iterations
       ELSE /\ pc' = "final_update"
            /\ UNCHANGED <<iterations, date, i>>
    /\ UNCHANGED <<inputs, max_iterations, schedule, assignments, error,
                   current_date, available_names, shift, relaxed, swaps,
                   entry_spread, dates>>

\* Line 159 left out: a pass does not count.
AdvanceNoCount ==
    IF i < Len(schedule[date])
    THEN /\ i' = i + 1
         /\ UNCHANGED <<date, iterations, pc>>
    ELSE IF date + 1 \in DOMAIN schedule
         THEN /\ date' = date + 1
              /\ i' = 1
              /\ UNCHANGED <<iterations, pc>>
         ELSE /\ date' = 0
              /\ i' = 0
              /\ UNCHANGED iterations
              /\ pc' = "while"

\* Lines 128, 132, 159: the next assignee, the next date, or the end of the pass.
Advance ==
    IF i < Len(schedule[date])
    THEN /\ i' = i + 1
         /\ UNCHANGED <<date, iterations, pc>>
    ELSE IF date + 1 \in DOMAIN schedule
         THEN /\ date' = date + 1
              /\ i' = 1
              /\ UNCHANGED <<iterations, pc>>
         ELSE /\ date' = 0
              /\ i' = 0
              /\ iterations' = iterations + 1
              /\ pc' = "while"

\* Lines 143-157: the assignee at position i of the day is replaced.
SwapAssignee ==
    /\ pc = "scan"
    /\ LET name == schedule[date][i]
       IN /\ OverTarget(name, date)
          /\ \E replacement \in Range(Candidates(date)) :
                /\ schedule' = [schedule EXCEPT ![date][i] = replacement]
                /\ assignments' = [assignments EXCEPT
                       ![name] = SwapOut(assignments[name], date),
                       ![replacement] = SwapIn(assignments[replacement], date)]
    /\ Advance
    /\ swaps' = swaps + 1
    /\ UNCHANGED <<inputs, max_iterations, error, current_date, available_names,
                   shift, relaxed, entry_spread, dates>>

\* Lines 133, 143: the assignee is within its targets, or nobody can replace it.
KeepAssignee ==
    /\ pc = "scan"
    /\ ~(OverTarget(schedule[date][i], date) /\ Candidates(date) # <<>>)
    /\ Advance
    /\ UNCHANGED <<inputs, max_iterations, schedule, assignments, error,
                   current_date, available_names, shift, relaxed, swaps,
                   entry_spread, dates>>

\* Line 162: the statistics are recomputed and generate_schedule returns.
FinalUpdate ==
    /\ pc = "final_update"
    /\ assignments' = update_assignments(assignments, schedule)
    /\ pc' = "returned"
    /\ UNCHANGED <<inputs, max_iterations, schedule, error, current_date,
                   available_names, shift, iterations, date, i, relaxed, swaps,
                   entry_spread, dates>>

\* update_assignments called once more on the finished schedule.
UpdateAgain ==
    /\ pc = "returned"
    /\ assignments' = update_assignments(assignments, schedule)
    /\ pc' = "recomputed"
    /\ UNCHANGED <<inputs, max_iterations, schedule, error, current_date,
                   available_names, shift, iterations, date, i, relaxed, swaps,
                   entry_spread, dates>>

----------------------------------------------------------------------------
\* The program: __init__, then generate_schedule.

Roster(r) == [k \in 1..r |-> k]

\* Lines 41-49.
Constructed ==
    /\ schedule = <<>>
    /\ assignments = [n \in NameSet |-> NewRecord]
    /\ pc = "for_date"
    /\ error = "none"
    /\ current_date = 0
    /\ available_names = <<>>
    /\ shift = <<>>
    /\ iterations = 0
    /\ date = 0
    /\ i = 0
    /\ max_iterations = 0
    /\ relaxed = FALSE
    /\ swaps = 0
    /\ entry_spread = 0
    /\ dates = <<>>

\* The ranges tried with a roster of r names: rosters of MaxRoster names get the
\* shorter ranges; an end_date earlier than start_date gives 0 or less.
DayCounts(r) == (0 - MaxDaysBack)..(IF r < MaxRoster THEN MaxDays ELSE MaxDaysWide)

Init ==
    /\ \E r \in 0..MaxRoster : /\ names = Roster(r)
                               /\ numDays \in DayCounts(r)
    /\ startWeekday \in 0..6
    /\ holidays \in {h \in SUBSET (0..(numDays - 1)) : Cardinality(h) <= MaxHolidays}
    /\ Constructed

Next ==
    \/ StartDay
    \/ PickName
    \/ PickFails
    \/ InitialDone
    \/ EqualizeEnter
    \/ EqualizeFails
    \/ WhileCheck
    \/ SwapAssignee
    \/ KeepAssignee
    \/ FinalUpdate
    \/ UpdateAgain

Spec == Init /\ [][Next]_vars

\* The scenario 2024-01-01 (a Monday) to 2024-01-07 with 7 people and no
\* holidays, with the shuffles of ShuffleSample.
InitWeek ==
    /\ names = Roster(7)
    /\ numDays = 7
    /\ startWeekday = 0
    /\ holidays = {}
    /\ Constructed

NextWeek ==
    \/ StartDaySample
    \/ PickNameSample
    \/ InitialDone
    \/ EqualizeEnter
    \/ WhileCheck
    \/ SwapAssignee
    \/ KeepAssignee
    \/ FinalUpdate
    \/ UpdateAgain

SpecWeek == InitWeek /\ [][NextWeek]_vars

\* 5 people over 5 to MaxDaysLong days from a Monday on, with at most
\* MaxHolidays holidays and the shuffles of ShuffleSample: the weekly cap is
\* reached, and ranges of 8 days have a second week.
InitLong ==
    /\ names = Roster(5)
    /\ numDays \in 5..MaxDaysLong
    /\ startWeekday = 0
    /\ holidays \in {h \in SUBSET (0..(numDays - 1)) : Cardinality(h) <= MaxHolidays}
    /\ Constructed

SpecLong == InitLong /\ [][NextWeek]_vars

----------------------------------------------------------------------------
\* Standby.py: generate_schedule of the greedy variant.

\* Line 42: the record __init__ gives every name (no weeks).
StandbyNewRecord == [total |-> 0, special_days |-> 0, dates |-> <<>>,
                     last_assigned |-> None]

\* The key of line 73, (total, special_days), of a is at most that of b.
LoadAtMost(a, b) ==
    \/ assignments[a].total < assignments[b].total
    \/ /\ assignments[a].total = assignments[b].total
       /\ assignments[a].special_days <= assignments[b].special_days

\* x put into a list sorted by the key, behind every name whose key is not
\* higher.
RECURSIVE InsertByLoad(_, _)
InsertByLoad(sorted, x) ==
    IF sorted = <<>> THEN <<x>>
    ELSE IF LoadAtMost(Head(sorted), x)
         THEN <<Head(sorted)>> \o InsertByLoad(Tail(sorted), x)
         ELSE <<x>> \o sorted

\* Line 73 left out: the list stays in its shuffled order.
SortByLoadLeftOut(l) == l

\* Line 73: list.sort(key=...) is stable, names of equal key keep the order the
\* shuffle gave them.
RECURSIVE SortByLoad(_)
SortByLoad(l) ==
    IF l = <<>> THEN <<>>
    ELSE InsertByLoad(SortByLoad(SubSeq(l, 1, Len(l) - 1)), l[Len(l)])

\* Lines 59-60: the dates of the range, shuffled.
StandbyShuffleDates ==
    /\ pc = "standby_start"
    /\ dates' \in Shuffles([k \in 1..NumDates |-> k - 1])
    /\ pc' = "standby_for_date"
    /\ UNCHANGED <<inputs, max_iterations, schedule, assignments, error,
                   current_date, available_names, shift, iterations, date, i,
                   relaxed, swaps, entry_spread>>

\* Lines 62-66: the loop takes the next date of the shuffled list and shuffles
\* a copy of the roster.
StandbyStartDay ==
    /\ pc = "standby_for_date"
    /\ dates # <<>>
    /\ current_date' = Head(dates)
    /\ dates' = Tail(dates)
    /\ available_names' \in Shuffles(names)
    /\ shift' = <<>>
    /\ pc' = "standby_pick"
    /\ UNCHANGED <<inputs, max_iterations, schedule, assignments, error,
                   iterations, date, i, relaxed, swaps, entry_spread>>

\* Lines 73-84 on the list pool: the list is sorted by load, its head is popped
\* and counted; the second pick of a day stores the shift (the locals are dead
\* after it).
StandbyPickFrom(pool) ==
    LET sorted == SortByLoad(pool)
        name == Head(sorted)
        sh == Append(shift, name)
        rec == assignments[name]
    IN /\ pool # <<>>
       /\ assignments' = [assignments EXCEPT
              ![name] = [total |-> rec.total + 1,
                         dates |-> Append(rec.dates, current_date),
                         last_assigned |-> current_date,
                         special_days |-> IF is_special_day(current_date)
                                          THEN rec.special_days + 1
                                          ELSE rec.special_days]]
       /\ IF Len(sh) < 2
          THEN /\ available_names' = Tail(sorted)
               /\ shift' = sh
               /\ UNCHANGED <<schedule, pc>>
          ELSE /\ schedule' = (current_date :> sh) @@ schedule
               /\ available_names' = <<>>
               /\ shift' = <<>>
               /\ pc' = "standby_for_date"
       /\ UNCHANGED <<inputs, max_iterations, error, current_date, iterations,
                      date, i, relaxed, swaps, entry_spread, dates>>

\* Lines 68-70: the pool a pick sorts and pops from; an empty list is refilled
\* with a shuffled copy of the whole roster.
StandbyPick ==
    /\ pc = "standby_pick"
    /\ IF available_names # <<>>
       THEN StandbyPickFrom(available_names)
       ELSE \E p \in Shuffles(names) : StandbyPickFrom(p)

\* Line 75 on an empty list (an empty roster): pop(0) raises IndexError.
StandbyPickFails ==
    /\ pc = "standby_pick"
    /\ available_names = <<>>
    /\ names = <<>>
    /\ pc' = "error"
    /\ error' = "IndexError"
    /\ UNCHANGED <<inputs, max_iterations, schedule, assignments, current_date,
                   available_names, shift, iterations, date, i, relaxed, swaps,
                   entry_spread, dates>>

\* The loop over the dates is over: generate_schedule returns.
StandbyDone ==
    /\ pc = "standby_for_date"
    /\ dates = <<>>
    /\ pc' = "standby_returned"
    /\ UNCHANGED <<inputs, max_iterations, schedule, assignments, error,
                   current_date, available_names, shift, iterations, date, i,
                   relaxed, swaps, entry_spread, dates>>

\* Lines 36-44.
StandbyConstructed ==
    /\ schedule = <<>>
    /\ assignments = [n \in NameSet |-> StandbyNewRecord]
    /\ pc = "standby_start"
    /\ error = "none"
    /\ current_date = 0
    /\ available_names = <<>>
    /\ shift = <<>>
    /\ iterations = 0
    /\ date = 0
    /\ i = 0
    /\ max_iterations = 0
    /\ relaxed = FALSE
    /\ swaps = 0
    /\ entry_spread = 0
    /\ dates = <<>>

InitStandby ==
    /\ \E r \in 0..MaxRosterStandby : names = Roster(r)
    /\ numDays \in (0 - MaxDaysBack)..MaxDaysStandby
    /\ startWeekday \in 0..6
    /\ holidays \in {h \in SUBSET (0..(numDays - 1)) : Cardinality(h) <= MaxHolidays}
    /\ StandbyConstructed

NextStandby ==
    \/ StandbyShuffleDates
    \/ StandbyStartDay
    \/ StandbyPick
    \/ StandbyPickFails
    \/ StandbyDone

SpecStandby == InitStandby /\ [][NextStandby]_vars

----------------------------------------------------------------------------
\* States of a run.

\* The update_assignments call of line 103 has been made.
AfterInitial ==
    pc \in {"equalize", "while", "scan", "final_update", "returned", "recomputed"}

\* The loop of generate_schedule over the dates has ended.
Filled == AfterInitial \/ (pc = "for_date" /\ current_date >= numDays)

\* The days on which person p is scheduled.
DaysOf(p) == {d \in DOMAIN schedule : p \in Range(schedule[d])}

RECURSIVE SumTotals(_)
SumTotals(S) == IF S = {} THEN 0
                ELSE LET n == CHOOSE x \in S : TRUE
                     IN assignments[n].total + SumTotals(S \ {n})

Covered ==
    /\ DOMAIN schedule = 0..(numDays - 1)
    /\ \A d \in DOMAIN schedule :
          /\ Len(schedule[d]) = 2
          /\ Range(schedule[d]) \subseteq NameSet
          /\ schedule[d][1] # schedule[d][2]

----------------------------------------------------------------------------
\* C1: with a roster of at least 2 unique names and a non-empty range, from the
\* moment generate_schedule has filled the schedule on (after every swap of
\* equalize_shifts and at return) the schedule has exactly one entry for every
\* day of the range, none for another day, and every entry holds exactly 2
\* different roster members.
C1_Coverage == (Len(names) >= 2 /\ numDays >= 1 /\ Filled) => Covered

\* A run that made a swap has returned, with the schedule covered.
C1_Witness == pc = "returned" /\ swaps >= 1 /\ Len(names) >= 2 /\ Covered

\* C2: the totals of the roster sum to 2 x (number of days) after the
\* update_assignments call that ends the initial assignment, after every swap
\* of equalize_shifts and after the final update_assignments.
C2_MassConserved == AfterInitial => SumTotals(DOMAIN assignments) = 2 * NumDates

\* The state right after a swap, inside a pass.
C2_Witness == pc = "scan" /\ swaps >= 1 /\ SumTotals(DOMAIN assignments) = 2 * numDays

\* C3: from the update_assignments call that ends the initial assignment on,
\* also right after each swap, the dates of every person are exactly the days
\* on which the schedule holds that person, and none is listed twice.
C3_DatesMatchSchedule ==
    AfterInitial =>
        \A p \in DOMAIN assignments :
            /\ Range(assignments[p].dates) = DaysOf(p)
            /\ Len(assignments[p].dates) = Cardinality(DaysOf(p))

\* After two swaps, somebody's dates are no longer in ascending order.
C3_Witness ==
    /\ AfterInitial
    /\ swaps >= 2
    /\ \E p \in DOMAIN assignments :
          \E k \in 1..(Len(assignments[p].dates) - 1) :
              assignments[p].dates[k] > assignments[p].dates[k + 1]

----------------------------------------------------------------------------
\* max(total) - min(total) over the roster.
Spread == SetMax(Totals) - SetMin(Totals)

\* The number of days of week w on which person p is scheduled.
WeekCount(p, w) == Cardinality({d \in DaysOf(p) : get_week_number(d) = w})

WeeksOfRange == {get_week_number(d) : d \in DOMAIN schedule}

WeeklyCapKept == \A p \in NameSet : \A w \in WeeksOfRange : WeekCount(p, w) <= 2

\* C4 as claimed: with at least 2 people, at least 1 day and no holidays, the
\* spread of total is at most 1 when generate_schedule returns.
C4_Original ==
    (pc = "returned" /\ Len(names) >= 2 /\ numDays >= 1 /\ holidays = {})
        => Spread <= 1

\* C4 (amended): with at least 2 people, at least 1 day and no holidays, when
\* generate_schedule returns the spread of total is at most 1 unless
\* equalize_shifts used up all its max_iterations passes.
C4_SpreadUnlessCapReached ==
    (pc = "returned" /\ Len(names) >= 2 /\ numDays >= 1 /\ holidays = {})
        => (Spread <= 1 \/ iterations = max_iterations)

\* Swaps brought the spread to at most 1 before the cap.
C4_Witness ==
    /\ pc = "returned"
    /\ holidays = {}
    /\ swaps >= 1
    /\ iterations < max_iterations
    /\ Spread <= 1

\* C5 as claimed: when generate_schedule returns, nobody has more than 2
\* assigned days in any week, for every roster of at least 2 and every range.
C5_Original == (pc = "returned" /\ Len(names) >= 2) => WeeklyCapKept

\* C5 (amended): when generate_schedule returns, nobody has more than 2
\* assigned days in any week, provided the initial assignment found at least 2
\* people who were non-adjacent and under the weekly cap on every day (the
\* relaxation of line 84 was never taken).
C5_CapUnlessRelaxed ==
    (pc = "returned" /\ Len(names) >= 2 /\ ~relaxed) => WeeklyCapKept

\* No relaxation, a swap made, and somebody at the cap of 2 in week 0.
C5_Witness ==
    /\ pc = "returned"
    /\ ~relaxed
    /\ swaps >= 1
    /\ \E p \in NameSet : WeekCount(p, 0) = 2

\* C6 as claimed: in the 7-day, 7-people scenario every outcome of the initial
\* assignment gives each person total = 2, and equalize_shifts makes no swap.
C6_Original ==
    /\ pc = "equalize" => \A p \in NameSet : assignments[p].total = 2
    /\ swaps = 0

\* C7: with a roster of exactly 2 people and a non-empty range the run raises
\* no error (every pick finds a name to pop), every day's entry holds both
\* people, and equalize_shifts leaves at its first stop-condition check: no
\* pass is started and no swap is made.
C7_TwoPeople ==
    (Len(names) = 2 /\ numDays >= 1) =>
        /\ pc # "error"
        /\ error = "none"
        /\ pc = "pick" => (available_names # <<>> \/ RefillNames(shift) # <<>>)
        /\ \A d \in DOMAIN schedule : Range(schedule[d]) = NameSet
        /\ pc # "scan"
        /\ iterations = 0
        /\ swaps = 0

\* A roster of 2 over at least 3 days has returned.
C7_Witness ==
    /\ pc = "returned"
    /\ Len(names) = 2
    /\ numDays >= 3
    /\ relaxed
    /\ DOMAIN schedule = 0..(numDays - 1)

----------------------------------------------------------------------------
InEqualize == pc \in {"while", "scan", "final_update"}

\* The pass counter never exceeds the cap, a pass runs only below the cap, and
\* the loop is left on the stop condition or at the cap, without an error and
\* with the schedule covered.
C8_Bounded ==
    /\ (InEqualize \/ pc = "returned") => iterations <= max_iterations
    /\ pc = "scan" => /\ iterations < max_iterations
                      /\ date \in DOMAIN schedule
                      /\ i \in 1..2
    /\ pc = "final_update" => (StopCondition \/ iterations = max_iterations)
    /\ (pc = "final_update" \/ pc = "returned") => (error = "none" /\ Covered)

\* A pass starts at the first day, visits the 2 assignees of each day in turn,
\* the days in ascending order without skipping one, and counts as one pass
\* after the last day.
C8_PassOrder ==
    /\ (pc = "while" /\ pc' = "scan") =>
           (date' = 0 /\ i' = 1 /\ iterations' = iterations)
    /\ pc = "scan" =>
           \/ (i = 1 /\ i' = 2 /\ date' = date /\ pc' = "scan"
                     /\ iterations' = iterations)
           \/ (i = 2 /\ date < numDays - 1 /\ date' = date + 1 /\ i' = 1
                     /\ pc' = "scan" /\ iterations' = iterations)
           \/ (i = 2 /\ date = numDays - 1 /\ pc' = "while"
                     /\ iterations' = iterations + 1)

\* The steps equalize_shifts has left at most: the passes below the cap, each
\* of 2 visits per day and one loop test, then the loop test that leaves.
StepsLeft ==
    LET pass == 2 * NumDates + 1
    IN IF pc = "while" THEN (max_iterations - iterations) * pass + 1
       ELSE IF pc = "scan"
            THEN (max_iterations - iterations - 1) * pass + 1
                     + (2 * NumDates - (2 * date + i) + 1)
            ELSE 0

\* Every step of the loop lowers StepsLeft, which is never negative: the loop
\* cannot go on for ever.
C8_Progress ==
    (pc = "while" \/ pc = "scan") => (StepsLeft' < StepsLeft /\ StepsLeft' >= 0)

\* C8: equalize_shifts always terminates: at most max_iterations passes, each
\* pass over every scheduled day once in ascending date order; it is left with
\* both spreads at most 1 at the last check or with the pass counter at
\* max_iterations, and reaching the cap ends the run normally, the schedule
\* covered.
C8_Terminates ==
    /\ []C8_Bounded
    /\ [][C8_PassOrder /\ C8_Progress]_vars

\* The cap was reached without meeting the stop condition, and the run returned.
C8_Witness ==
    /\ pc = "returned"
    /\ iterations = max_iterations
    /\ ~StopCondition
    /\ swaps >= 1
    /\ Covered

----------------------------------------------------------------------------
\* update_assignments has just been called: at line 103, at line 162, or once
\* more after the return.
JustUpdated == pc \in {"equalize", "returned", "recomputed"}

\* A second call in a row would leave every person's total, special_days, dates,
\* last_assigned and weeks as the first call left them.
C9_SecondCallSame ==
    JustUpdated => update_assignments(assignments, schedule) = assignments

\* A step that is a call of update_assignments leaves the schedule as it is.
C9_ScheduleKept == (pc' # pc /\ JustUpdated') => schedule' = schedule

\* C9: update_assignments is idempotent: a second call right after a first one
\* leaves total, special_days, dates, last_assigned and weeks of every person
\* identical, and no call modifies the schedule.
C9_Idempotent ==
    /\ []C9_SecondCallSame
    /\ [][C9_ScheduleKept]_vars

\* update_assignments was called twice in a row on a schedule that swaps changed.
C9_Witness ==
    /\ pc = "recomputed"
    /\ swaps >= 1
    /\ \E p \in NameSet : /\ assignments[p].total >= 2
                          /\ assignments[p].last_assigned # None

\* C10 as claimed: a run with a roster of fewer than 2 names fails with
\* InsufficientRosterError.
C10_Original ==
    Len(names) < 2 =>
        /\ pc = "error" => error = "InsufficientRosterError"
        /\ pc \notin {"returned", "recomputed"}

\* C11 as claimed: a run whose end_date is earlier than its start_date fails
\* with InvalidRangeError instead of producing a schedule.
C11_Original ==
    numDays <= 0 =>
        /\ pc = "error" => error = "InvalidRangeError"
        /\ pc \notin {"returned", "recomputed"}

----------------------------------------------------------------------------
\* The (person, day) pairs with the person scheduled on both day and day + 1.
BackToBack ==
    {pd \in NameSet \X (DOMAIN schedule) :
        /\ pd[2] + 1 \in DOMAIN schedule
        /\ pd[1] \in Range(schedule[pd[2]])
        /\ pd[1] \in Range(schedule[pd[2] + 1])}

\* The (day, position) entries of the schedule that this step rewrites.
Rewritten ==
    {dk \in (DOMAIN schedule) \X {1, 2} : schedule'[dk[1]][dk[2]] # schedule[dk[1]][dk[2]]}

\* Every swap puts on day d a person who, at the moment of the swap, is in the
\* entry of neither day d-1 nor day d+1, and replaces one entry only.
C12_SwapNotAdjacent ==
    InEqualize =>
        /\ Cardinality(Rewritten) <= 1
        /\ \A dk \in Rewritten : ~is_consecutive(schedule'[dk[1]][dk[2]], dk[1])

\* No step of equalize_shifts adds a back-to-back pair.
C12_NoNewBackToBack == InEqualize => BackToBack' \subseteq BackToBack

\* C12: equalize_shifts never creates a back-to-back assignment: every swap puts
\* on day d a person who is in the entry of neither day d-1 nor day d+1 at that
\* moment, so the back-to-back (person, day) pairs at the end of equalize_shifts
\* are a subset of those at its start.
C12_NoBackToBackFromSwaps == [][C12_SwapNotAdjacent /\ C12_NoNewBackToBack]_vars

\* Person r has just been swapped in at position 1 of the day being scanned:
\* only a swap appends a day to dates after a later one.
JustSwappedIn(r) ==
    /\ pc = "scan"
    /\ iterations = 0
    /\ i = 2
    /\ r = schedule[date][1]
    /\ LET ds == assignments[r].dates
       IN /\ Len(ds) >= 2
          /\ ds[Len(ds)] = date
          /\ \E k \in 1..(Len(ds) - 1) : ds[k] > date

\* A swap has just been made on a day for which somebody else passes every test
\* of the candidate list but the adjacency test.
C12_Witness ==
    /\ \E r \in NameSet : JustSwappedIn(r)
    /\ \E n \in NameSet : /\ NotOnDay(n, date)
                          /\ is_available(n, date)
                          /\ UnderTarget(n, date)
                          /\ is_consecutive(n, date)

\* The number of days of week w on which sched holds person p.
WeekCountIn(sched, p, w) ==
    Cardinality({d \in DOMAIN sched : p \in Range(sched[d]) /\ get_week_number(d) = w})

\* The (person, week) pairs with more than 2 scheduled days.
OverCap == {pw \in NameSet \X WeeksOfRange : WeekCount(pw[1], pw[2]) > 2}

\* Right after a swap the incoming person has at most 2 scheduled days in the
\* week of the swapped day.
C13_SwapUnderCap ==
    InEqualize =>
        \A dk \in Rewritten :
            WeekCountIn(schedule', schedule'[dk[1]][dk[2]], get_week_number(dk[1])) <= 2

\* No step of equalize_shifts adds a (person, week) pair over the cap.
C13_NoNewOverCap == InEqualize => OverCap' \subseteq OverCap

\* C13: equalize_shifts never pushes anyone over the weekly cap: right after
\* every swap the incoming person has at most 2 scheduled days in the week of
\* the swapped day, so every (person, week) pair over the cap at the end of
\* equalize_shifts was over it at the start.
C13_SwapsKeepCap == [][C13_SwapUnderCap /\ C13_NoNewOverCap]_vars

\* A swap has just been made on a day for which somebody else passes every test
\* of the candidate list but the weekly cap.
C13_Witness ==
    /\ \E r \in NameSet : JustSwappedIn(r)
    /\ \E n \in NameSet : /\ NotOnDay(n, date)
                          /\ ~is_consecutive(n, date)
                          /\ UnderTarget(n, date)
                          /\ ~is_available(n, date)

----------------------------------------------------------------------------
\* The name a pick step stores: the first pick goes to shift, the second one
\* completes the day's entry.
Picked == IF shift = <<>> THEN shift'[1] ELSE schedule'[current_date][2]

\* A step that picks a name for current_date.
PickStep == pc = "pick" /\ pc' # "error"

\* The number of (day, name) picks person n holds in week w, as counted at the
\* start of the day being filled: the picks already made for that day are in
\* shift and not counted.
WeekPicksAtDayStart(n, w) ==
    DictGet(assignments[n].weeks, w, 0) - (IF n \in Range(shift) THEN 1 ELSE 0)

\* The roster members that were non-adjacent and under the weekly cap at the
\* start of the day being filled.
StrictAtDayStart ==
    {n \in NameSet : /\ ~is_consecutive(n, current_date)
                     /\ WeekPicksAtDayStart(n, get_week_number(current_date)) < 2}

\* The roster members that are not assigned on the day before current_date.
NonAdjacent == {n \in NameSet : ~is_consecutive(n, current_date)}

\* A person already at 2 assignments in the day's week is picked only if fewer
\* than 2 roster members were non-adjacent and under the cap at the start of
\* the day.
C14_CapLadder ==
    PickStep =>
        (DictGet(assignments[Picked].weeks, get_week_number(current_date), 0) >= 2
            => Cardinality(StrictAtDayStart) < 2)

\* A person assigned on the previous day is picked only if fewer than 2 roster
\* members were non-adjacent at the start of the day, and only after every
\* non-adjacent member has been picked.
C14_AdjacencyLadder ==
    PickStep =>
        (is_consecutive(Picked, current_date)
            => /\ Cardinality(NonAdjacent) < 2
               /\ NonAdjacent \subseteq Range(shift))

\* C14: the initial assignment relaxes its constraints in ladder order for each
\* day: somebody at 2 assignments in the day's week is picked only if fewer than
\* 2 roster members were both non-adjacent and under the weekly cap at the start
\* of the day, and somebody assigned on the previous day only if fewer than 2
\* were non-adjacent, after every non-adjacent member.
C14_Ladder == [][C14_CapLadder /\ C14_AdjacencyLadder]_vars

\* A day has been filled with one person over the weekly cap, picked first, and
\* one person who is also on the day before, picked after the only
\* non-adjacent member.
C14_Witness ==
    /\ pc = "for_date"
    /\ current_date >= 3
    /\ LET d == current_date - 1
       IN /\ d \in DOMAIN schedule
          /\ DictGet(assignments[schedule[d][1]].weeks, get_week_number(d), 0) >= 3
          /\ schedule[d][1] \notin Range(schedule[d - 1])
          /\ schedule[d][2] \in Range(schedule[d - 1])

----------------------------------------------------------------------------
\* The schedule's own counts for person p hold in p's record: total, special
\* days, and the days of every week, a week without a key counting as 0.
InLockstep(p) ==
    LET r == assignments[p]
    IN /\ r.total = Cardinality(DaysOf(p))
       /\ r.special_days = Cardinality({d \in DaysOf(p) : is_special_day(d)})
       /\ \A w \in (DOMAIN r.weeks) \cup WeeksOfRange :
              /\ DictGet(r.weeks, w, 0) = WeekCount(p, w)
              /\ DictGet(r.weeks, w, 0) >= 0

\* From the update_assignments call of line 103 on, after every swap included,
\* every record is in lockstep with the schedule.
C15_Lockstep == AfterInitial => \A p \in NameSet : InLockstep(p)

\* The final update_assignments changes no total, special_days or week count.
C15_FinalUpdateKeeps ==
    pc = "final_update" =>
        \A p \in NameSet :
            /\ assignments'[p].total = assignments[p].total
            /\ assignments'[p].special_days = assignments[p].special_days
            /\ \A w \in (DOMAIN assignments[p].weeks) \cup (DOMAIN assignments'[p].weeks) :
                   DictGet(assignments'[p].weeks, w, 0) = DictGet(assignments[p].weeks, w, 0)

\* C15: the statistics the swap loop keeps stay in lockstep with the schedule:
\* after every swap, for every person, total is the number of days whose entry
\* holds the person, special_days the number of those that are special, and
\* weeks[w] (a missing week counting as 0, never negative) the number of those
\* in week w; hence the final update_assignments changes none of these values.
C15_StatsInLockstep ==
    /\ []C15_Lockstep
    /\ [][C15_FinalUpdateKeeps]_vars

\* Inside a pass, after a swap that took somebody's only day of week 0: the
\* record keeps the key of the week, with the count 0.
C15_Witness ==
    /\ pc = "scan"
    /\ swaps >= 1
    /\ \E p \in NameSet : /\ 0 \in DOMAIN assignments[p].weeks
                          /\ assignments[p].weeks[0] = 0
                          /\ InLockstep(p)

----------------------------------------------------------------------------
\* max(special_days) - min(special_days) over the roster.
SpecialSpread == SetMax(Specials) - SetMin(Specials)

\* equalize_shifts is at its entry, at its first loop test or past a loop left
\* at the first test, and both spreads are at most 1.
BalancedEntry ==
    /\ Len(names) > 0
    /\ pc \in {"equalize", "while", "final_update"}
    /\ iterations = 0
    /\ swaps = 0
    /\ Spread <= 1
    /\ SpecialSpread <= 1

\* C16: if both spreads are at most 1 on entry to equalize_shifts, it starts no
\* pass, makes no swap and leaves the schedule and every person's total,
\* special_days, dates and weeks unchanged, even when somebody's total differs
\* from their target_shifts value.
C16_BalancedNoOp ==
    [][BalancedEntry =>
          /\ pc' \in {"equalize", "while", "final_update", "returned"}
          /\ swaps' = 0
          /\ iterations' = 0
          /\ schedule' = schedule
          /\ \A p \in NameSet :
                 /\ assignments'[p].total = assignments[p].total
                 /\ assignments'[p].special_days = assignments[p].special_days
                 /\ assignments'[p].dates = assignments[p].dates
                 /\ assignments'[p].weeks = assignments[p].weeks]_vars

\* A run entered with both spreads at most 1 has returned without a pass, with
\* somebody below their target and somebody else above theirs.
C16_Witness ==
    /\ pc = "returned"
    /\ iterations = 0
    /\ swaps = 0
    /\ entry_spread <= 1
    /\ Spread <= 1
    /\ SpecialSpread <= 1
    /\ \E p, q \in NameSet : /\ assignments[p].total < target_shifts(p)
                             /\ assignments[q].total > target_shifts(q)

----------------------------------------------------------------------------
\* C17 as claimed: max(total) - min(total) when equalize_shifts returns is no
\* larger than it was when equalize_shifts was entered, for every max_iterations
\* and every sequence of random choices.
C17_Original == (pc = "returned" /\ Len(names) > 0) => Spread <= entry_spread

----------------------------------------------------------------------------
\* Candidate a is lower than candidate b in the order of (total, special_days).
LowerLoad(a, b) ==
    \/ assignments[a].total < assignments[b].total
    \/ /\ assignments[a].total = assignments[b].total
       /\ assignments[a].special_days < assignments[b].special_days

\* C18 as claimed: whenever equalize_shifts makes a swap, the replacement has
\* the lowest (total, special_days) tuple among the members of the candidate
\* list computed for that swap.
C18_Original ==
    [][(pc = "scan" /\ swaps' = swaps + 1) =>
          \A n \in Range(Candidates(date)) : ~LowerLoad(n, schedule'[date][i])]_vars

----------------------------------------------------------------------------
\* The names a pick can take: the rest of the day's shuffled list, or the
\* refill list of line 92 when that is empty.
PickPool ==
    IF available_names # <<>> THEN Range(available_names)
    ELSE Range(RefillNames(shift))

\* The special days among the days already assigned to person p.
SpecialDaysOf(p) == {d \in DaysOf(p) : is_special_day(d)}

\* Person a has a lower running load than person b: fewer days in the schedule
\* so far, or as many days and fewer special days.
LessLoaded(a, b) ==
    \/ Cardinality(DaysOf(a)) < Cardinality(DaysOf(b))
    \/ /\ Cardinality(DaysOf(a)) = Cardinality(DaysOf(b))
       /\ Cardinality(SpecialDaysOf(a)) < Cardinality(SpecialDaysOf(b))

\* C19 as claimed: every pick of the initial assignment goes to a candidate with
\* the minimum (days assigned so far, special days assigned so far) among the
\* candidates eligible for that pick.
C19_Original ==
    [][PickStep => \A n \in PickPool : ~LessLoaded(n, Picked)]_vars

----------------------------------------------------------------------------
RECURSIVE SumTargets(_)
SumTargets(S) == IF S = {} THEN 0
                 ELSE LET n == CHOOSE x \in S : TRUE
                      IN target_shifts(n) + SumTargets(S \ {n})

\* C20: the targets equalize_shifts computes for the totals sum to total_shifts
\* (2 x the number of days): exactly total_shifts % roster_size people have the
\* target total_shifts // roster_size + 1, they are the first ones in roster
\* order, and everyone else has total_shifts // roster_size.
C20_TargetsSum ==
    InEqualize =>
        LET q == (2 * numDays) \div Len(names)
            x == (2 * numDays) % Len(names)
        IN /\ SumTargets(NameSet) = total_shifts
           /\ numDays >= 0 => total_shifts = 2 * NumDates
           /\ Cardinality({n \in NameSet : target_shifts(n) = q + 1}) = x
           /\ \A k \in 1..Len(names) :
                  target_shifts(names[k]) = IF k <= x THEN q + 1 ELSE q

\* The targets are computed, with at least 2 people at the higher target and
\* at least 2 at the lower one.
C20_Witness ==
    /\ pc = "while"
    /\ numDays >= 1
    /\ (2 * numDays) % Len(names) >= 2
    /\ Len(names) - ((2 * numDays) % Len(names)) >= 2
    /\ target_shifts(names[1]) = target_shifts(names[Len(names)]) + 1

----------------------------------------------------------------------------
\* C21: with a roster of at least 4 unique names and any range, nobody is ever
\* scheduled on two consecutive days, in the schedule generate_schedule returns
\* as at every moment before: no pick of the initial assignment has to fall
\* back on the refill list of line 92, the only one that admits adjacent
\* names, and no swap brings adjacency in.
C21_NeverConsecutive ==
    Len(names) >= 4 =>
        /\ BackToBack = {}
        /\ pc = "pick" => /\ available_names # <<>>
                          /\ \A n \in Range(available_names) :
                                 ~is_consecutive(n, current_date)

\* A roster of 4 has returned from a range of at least 5 days, for which the
\* weekly cap had to be dropped, with nobody on two consecutive days.
C21_Witness ==
    /\ pc = "returned"
    /\ Len(names) = 4
    /\ numDays >= 5
    /\ relaxed
    /\ Covered
    /\ BackToBack = {}

----------------------------------------------------------------------------
\* floor(2 x days / roster_size) and ceil(2 x days / roster_size).
FloorShare == (2 * NumDates) \div Len(names)

CeilShare == FloorShare + (IF (2 * NumDates) % Len(names) = 0 THEN 0 ELSE 1)

\* C22: in the greedy variant of Standby.py, with a roster of at least 2 unique
\* names, max(total) - min(total) is at most 1 after every single pick, whatever
\* the shuffled order of the days; at the end every person's total is the floor
\* or the ceiling of 2 x days / roster_size, and every day holds 2 different
\* people.
C22_GreedyBalanced ==
    Len(names) >= 2 =>
        /\ Spread <= 1
        /\ \A d \in DOMAIN schedule :
               /\ Len(schedule[d]) = 2
               /\ schedule[d][1] # schedule[d][2]
               /\ Range(schedule[d]) \subseteq NameSet
        /\ pc = "standby_returned" =>
               /\ Covered
               /\ \A p \in NameSet :
                      assignments[p].total \in {FloorShare, CeilShare}

\* A run over 3 days or more filled out of their order has returned, with a
\* roster that does not divide the number of picks: somebody holds one day more
\* than somebody else.
C22_Witness ==
    /\ pc = "standby_returned"
    /\ Len(names) >= 3
    /\ numDays >= 3
    /\ Covered
    /\ Spread = 1
    /\ \E p \in NameSet :
           \E k \in 1..(Len(assignments[p].dates) - 1) :
               assignments[p].dates[k] > assignments[p].dates[k + 1]

====
